---- MODULE Spec2Model ----
(***************************************************************************)
(* The conversation session state and the progress derivation of the       *)
(* ChatInterface component (src/src/components/ChatInterface.tsx), with    *)
(* the earlier copy of the same component kept in src/unnamed/part_000.    *)
(*                                                                         *)
(* Four specifications:                                                    *)
(*   Spec          the component of ChatInterface.tsx: mount, typing,      *)
(*                 handleSend, handleButtonClick and the continuations     *)
(*                 that run when the backend request resolves or rejects;  *)
(*   SpecLegacy    the same component with the catch blocks of part_000;   *)
(*   SpecProgress  updateProgressFromSlots and the overall-progress effect *)
(*                 applied to slot maps (no handler of the component calls *)
(*                 updateProgressFromSlots, so it is exercised directly).  *)
(*   SpecConfig    the same two computations over the sections a build     *)
(*                 configures, sections without fields included.           *)
(*                                                                         *)
(* JavaScript values are records [t, v]: t is the typeof tag and v the     *)
(* value's characters.  A string is a sequence of characters; a character  *)
(* is a whitespace character or any other token.                           *)
(***************************************************************************)
EXTENDS Integers, Sequences, FiniteSets, TLC

VARIABLES
    messages,        \* useState<Message[]>            (ChatInterface.tsx:236)
    inputText,       \* useState('')                   (ChatInterface.tsx:237)
    serverError,     \* useState(false)                (ChatInterface.tsx:239)
    profileProgress, \* useState<ProfileProgress>      (ChatInterface.tsx:241)
    mounted,         \* the mount effects have run
    now,             \* Date.now() when the last handler or continuation ran
    requests,        \* the axios.post calls issued, in issuance order, how each ended,
                     \* and (history) the items of the array it resolved with
    origin,          \* history: for each message, the dispatch that made it
    lastCall,        \* history: whether the handler called last returned early
    respSlots,       \* history: slot map of the response folded in last
    slots,           \* argument of the last updateProgressFromSlots call
    sectionsChanged  \* the [profileProgress.sections] effect is scheduled

vars == <<messages, inputText, serverError, profileProgress, mounted, now,
          requests, origin, lastCall, respSlots, slots, sectionsChanged>>

-----------------------------------------------------------------------------
(* Bounds *)

MaxDispatch == 2    \* accepted dispatches per session
MaxTicks == 1       \* milliseconds that pass during the session
StartTime == 100    \* Date.now() when the component mounts

-----------------------------------------------------------------------------
(* JavaScript values *)

Undefined == [t |-> "undefined", v |-> <<>>]
Null == [t |-> "null", v |-> <<>>]
Str(s) == [t |-> "string", v |-> s]
Num(digits) == [t |-> "number", v |-> digits]

\* a === b on undefined, null, strings and numbers
StrictEq(a, b) == a.t = b.t /\ a.v = b.v

\* the falsy values of these types: undefined, null, '' and 0
Falsy(a) ==
    \/ a.t \in {"undefined", "null"}
    \/ a.t = "string" /\ a.v = <<>>
    \/ a.t = "number" /\ a.v = <<"0">>

WhiteSpace == {" ", "\n", "\t"}

RECURSIVE TrimStart(_)
TrimStart(s) ==
    IF s = <<>> THEN <<>>
    ELSE IF Head(s) \in WhiteSpace THEN TrimStart(Tail(s)) ELSE s

RECURSIVE TrimEnd(_)
TrimEnd(s) ==
    IF s = <<>> THEN <<>>
    ELSE IF s[Len(s)] \in WhiteSpace THEN TrimEnd(SubSeq(s, 1, Len(s) - 1))
    ELSE s

NoTrim(s) == s

\* String.prototype.trim
Trim(s) == TrimEnd(TrimStart(s))

\* o[key] on a plain object o: undefined when the key is absent
Lookup(o, key) == IF key \in DOMAIN o THEN o[key] ELSE Undefined

-----------------------------------------------------------------------------
(* Numbers: a / b * 100 is kept exact, as the fraction num / den in lowest  *)
(* terms; 0 / 0 is NaN.                                                    *)

RECURSIVE GCD(_, _)
GCD(a, b) == IF b = 0 THEN a ELSE GCD(b, a % b)

NaN == [nan |-> TRUE, num |-> 0, den |-> 1]
Zero == [nan |-> FALSE, num |-> 0, den |-> 1]

\* (completed / total) * 100
Percent(completed, total) ==
    IF total = 0 THEN NaN
    ELSE LET g == GCD(100 * completed, total)
         IN  [nan |-> FALSE, num |-> (100 * completed) \div g, den |-> total \div g]

\* a !== b on numbers: NaN differs from every number, itself included
NumberDiffers(a, b) == a.nan \/ b.nan \/ a.num # b.num \/ a.den # b.den

-----------------------------------------------------------------------------
(* Progress model *)

\* the four sections of the initial state
InitialSections == <<
    [name |-> "Personal Information", completed |-> FALSE,
     fields |-> <<"first_name", "last_name", "email", "phone", "location", "birthday">>,
     completedFields |-> <<>>],
    [name |-> "Work Experience", completed |-> FALSE,
     fields |-> <<"current_job", "past_jobs", "skills", "years_experience">>,
     completedFields |-> <<>>],
    [name |-> "Education", completed |-> FALSE,
     fields |-> <<"highest_education", "school", "course", "year_completed">>,
     completedFields |-> <<>>],
    [name |-> "Skills & Preferences", completed |-> FALSE,
     fields |-> <<"technical_skills", "soft_skills", "preferred_industry", "expected_salary">>,
     completedFields |-> <<>>] >>

InitialProgress == [sections |-> InitialSections, overallProgress |-> Zero]

\* sections.reduce((acc, section) => acc + section.fields.length, 0)
RECURSIVE SumFields(_)
SumFields(sections) ==
    IF sections = <<>> THEN 0
    ELSE Len(Head(sections).fields) + SumFields(Tail(sections))

\* sections.reduce((acc, section) => acc + section.completedFields.length, 0)
RECURSIVE SumCompleted(_)
SumCompleted(sections) ==
    IF sections = <<>> THEN 0
    ELSE Len(Head(sections).completedFields) + SumCompleted(Tail(sections))

\* the body of the [profileProgress.sections] effect
OverallProgressEffect(p) ==
    LET totalFields == SumFields(p.sections)
        completedFields == SumCompleted(p.sections)
        newOverallProgress == Percent(completedFields, totalFields)
    IN  IF NumberDiffers(newOverallProgress, p.overallProgress)
        THEN [p EXCEPT !.overallProgress = newOverallProgress]
        ELSE p

SlotFilledNoEmptyCheck(slotMap, field) ==
    /\ ~StrictEq(Lookup(slotMap, field), Null)
    /\ ~StrictEq(Lookup(slotMap, field), Undefined)

\* slots[field] !== null && slots[field] !== undefined && slots[field] !== ''
SlotFilled(slotMap, field) ==
    /\ ~StrictEq(Lookup(slotMap, field), Null)
    /\ ~StrictEq(Lookup(slotMap, field), Undefined)
    /\ ~StrictEq(Lookup(slotMap, field), Str(<<>>))

SectionCompletedAnyField(newCompletedFields, fields) == Len(newCompletedFields) > 0

\* newCompletedFields.length === section.fields.length
SectionCompleted(newCompletedFields, fields) == Len(newCompletedFields) = Len(fields)

NewSectionAccumulating(section, slotMap) ==
    LET Keep(field) ==
            \/ SlotFilled(slotMap, field)
            \/ \E c \in DOMAIN section.completedFields : section.completedFields[c] = field
        newCompletedFields == SelectSeq(section.fields, Keep)
    IN  [section EXCEPT !.completedFields = newCompletedFields,
                        !.completed = SectionCompleted(newCompletedFields, section.fields)]

\* the section => {...} callback of prev.sections.map
NewSection(section, slotMap) ==
    LET Keep(field) == SlotFilled(slotMap, field)
        newCompletedFields == SelectSeq(section.fields, Keep)
    IN  [section EXCEPT !.completedFields = newCompletedFields,
                        !.completed = SectionCompleted(newCompletedFields, section.fields)]

NewOverallProgressStale(prev, newSections) ==
    Percent(SumCompleted(prev.sections), SumFields(prev.sections))

\* totalFields over prev.sections, completedFields over newSections
NewOverallProgress(prev, newSections) ==
    Percent(SumCompleted(newSections), SumFields(prev.sections))

\* the prev => {...} updater of updateProgressFromSlots
UpdateProgressFromSlots(prev, slotMap) ==
    LET newSections == [i \in 1..Len(prev.sections) |-> NewSection(prev.sections[i], slotMap)]
    IN  [sections |-> newSections,
         overallProgress |-> NewOverallProgress(prev, newSections)]

-----------------------------------------------------------------------------
(* Messages *)

NoButtons == [t |-> "undefined", v |-> <<>>]
Buttons(bs) == [t |-> "array", v |-> bs]

\* n.toString() for an integer n, and '1'
IntId(n) == [k |-> "int", v |-> n]
\* Math.random().toString(): the r-th value drawn, a fraction in [0, 1)
FracId(r) == [k |-> "frac", v |-> r]

GreetingText == <<"Magandang araw! Ako si Blessie, ...">>
ErrorText == <<"I apologize, but I'm unable to connect to the server at the moment. ...">>
LegacyErrorText == <<"Sorry, I encountered an error. Please try again.">>

GreetingButtons == <<
    [title |-> <<"Gumawa ng bagong resume">>, payload |-> <<"/profile_builder">>],
    [title |-> <<"Pagandahin ang iyong kasalukuyang resume">>,
     payload |-> <<"/improve_existing_resume">>],
    [title |-> <<"Humanap ng trabahong angkop sa iyo">>, payload |-> <<"/job_matching">>],
    [title |-> <<"Alamin ang mga training na makakatulong sa iyong career">>,
     payload |-> <<"/training_recommendations">>] >>

GreetingStamped(t) ==
    [id |-> IntId(t), text |-> Str(GreetingText), sender |-> "bot",
     timestamp |-> t, buttons |-> Buttons(GreetingButtons)]

\* the welcome message of the mount effect
Greeting(t) ==
    [id |-> IntId(1), text |-> Str(GreetingText), sender |-> "bot",
     timestamp |-> t, buttons |-> Buttons(GreetingButtons)]

\* the title of the button with this payload, among the buttons of the welcome
\* message and of ItemMenu
TitleFor(payload) ==
    LET all == GreetingButtons \o <<[title |-> <<"Skip">>, payload |-> <<>>]>>
        matches == { b \in DOMAIN all : all[b].payload = payload }
    IN  IF matches = {} THEN payload ELSE all[CHOOSE b \in matches : TRUE].title

UserMessageTitled(text, t) ==
    [id |-> IntId(t), text |-> Str(TitleFor(text)), sender |-> "user",
     timestamp |-> t, buttons |-> NoButtons]

\* userMessage of handleSend and of handleButtonClick
UserMessage(text, t) ==
    [id |-> IntId(t), text |-> Str(text), sender |-> "user",
     timestamp |-> t, buttons |-> NoButtons]

\* the message of the catch blocks
ErrorMessage(text, t) ==
    [id |-> IntId(t), text |-> Str(text), sender |-> "bot",
     timestamp |-> t, buttons |-> NoButtons]

\* the payloads of the buttons the render shows:
\* message.buttons && message.sender === 'bot'
ClickablePayloads(msgs) ==
    UNION { { msgs[i].buttons.v[j].payload : j \in DOMAIN msgs[i].buttons.v } :
            i \in { a \in DOMAIN msgs : msgs[a].buttons.t = "array" /\ msgs[a].sender = "bot" } }

-----------------------------------------------------------------------------
(* The dialogue backend: what a request can resolve with *)

EmptySlotMap == [k \in {} |-> Undefined]
NoSlots == [present |-> FALSE, map |-> EmptySlotMap]
SomeSlots(m) == [present |-> TRUE, map |-> m]

Item(text, buttons) == [t |-> "object", text |-> text, buttons |-> buttons]
ItemNull == [t |-> "null", text |-> Undefined, buttons |-> NoButtons]
ItemHi == Item(Str(<<"Hi Juan!">>), NoButtons)
ItemMenu == Item(Undefined, Buttons(<<[title |-> <<"Skip">>, payload |-> <<>>]>>))

BodyArray(items) == [t |-> "array", items |-> items, chars |-> <<>>]
BodyNull == [t |-> "null", items |-> <<>>, chars |-> <<>>]
BodyObject == [t |-> "object", items |-> <<>>, chars |-> <<>>]
BodyString(chars) == [t |-> "string", items |-> <<>>, chars |-> chars]

\* response bodies: well-formed arrays, and bodies of another shape; the
\* response whose body is [ItemHi] also carries a slot map
ArrayBodies == { BodyArray(<<>>), BodyArray(<<ItemMenu, ItemHi>>) }
MalformedBodies ==
    { BodyNull, BodyObject, BodyString(<<"o", "k">>), BodyArray(<<ItemNull>>) }

JuanSlots == [k \in {"first_name"} |-> Str(<<"Juan">>)]

Responses ==
    { [data |-> b, slots |-> NoSlots] : b \in ArrayBodies \cup MalformedBodies }
    \cup { [data |-> BodyArray(<<ItemHi>>), slots |-> SomeSlots(JuanSlots)] }

-----------------------------------------------------------------------------
(* The continuations of the handlers *)

\* the number of ids already drawn from Math.random()
RandomDrawn(msgs) == Cardinality({ i \in DOMAIN msgs : msgs[i].id.k = "frac" })

MapThrowsOnEmpty(data) ==
    \/ data.t # "array"
    \/ data.items = <<>>
    \/ \E j \in DOMAIN data.items : data.items[j].t = "null"

\* response.data.map(...) throws: data has no map method, or an item is null
MapThrows(data) ==
    \/ data.t # "array"
    \/ \E j \in DOMAIN data.items : data.items[j].t = "null"

TextAsIs(text) == text

\* msg.text || ''
TextOrEmpty(text) == IF Falsy(text) THEN Str(<<>>) ELSE text

\* botResponses of handleSend
BotResponses(data, msgs, t) ==
    [j \in DOMAIN data.items |->
        [id |-> FracId(RandomDrawn(msgs) + j), text |-> TextOrEmpty(data.items[j].text),
         sender |-> "bot", timestamp |-> t, buttons |-> NoButtons]]

\* response.data && response.data.length > 0
HasFirst(data) ==
    \/ data.t = "array" /\ Len(data.items) > 0
    \/ data.t = "string" /\ Len(data.chars) > 0

LastItem(data) ==
    IF data.t = "array" THEN data.items[Len(data.items)] ELSE Item(Undefined, NoButtons)

\* response.data[0]: an item of the array, or a character of the string
First(data) == IF data.t = "array" THEN data.items[1] ELSE Item(Undefined, NoButtons)

\* reading response.data[0].text throws
FirstThrows(data) == HasFirst(data) /\ First(data).t = "null"

\* botMessage of handleButtonClick
BotMessage(data, t) ==
    [id |-> IntId(t + 1), text |-> First(data).text, sender |-> "bot",
     timestamp |-> t, buttons |-> First(data).buttons]

\* what a catch block does: the messages it appends and the new serverError
CatchHandleSend(t, err) == [append |-> <<ErrorMessage(ErrorText, t)>>, serverError |-> TRUE]
CatchHandleButtonClick(t, err) == [append |-> <<ErrorMessage(ErrorText, t)>>, serverError |-> TRUE]
LegacyCatchHandleSend(t, err) == [append |-> <<ErrorMessage(LegacyErrorText, t)>>, serverError |-> err]
LegacyCatchHandleButtonClick(t, err) == [append |-> <<>>, serverError |-> err]

\* the catch block of a handler, in ChatInterface.tsx or in the earlier copy
SendCatch(legacy, t, err) ==
    IF legacy THEN LegacyCatchHandleSend(t, err) ELSE CatchHandleSend(t, err)
ButtonCatch(legacy, t, err) ==
    IF legacy THEN LegacyCatchHandleButtonClick(t, err) ELSE CatchHandleButtonClick(t, err)

-----------------------------------------------------------------------------
(* Initial state: the useState initial values, before the mount effects *)

Init ==
    /\ messages = <<>>
    /\ inputText = <<>>
    /\ serverError = FALSE
    /\ profileProgress = InitialProgress
    /\ mounted = FALSE
    /\ now = StartTime
    /\ requests = <<>>
    /\ origin = <<>>
    /\ lastCall = "none"
    /\ respSlots = NoSlots
    /\ slots = NoSlots
    /\ sectionsChanged = TRUE

history == <<origin, lastCall, respSlots>>
progress == <<profileProgress, slots, sectionsChanged>>

\* the effects that run once the component has mounted: the overall-progress
\* effect and the welcome message
Mount ==
    /\ ~mounted
    /\ mounted' = TRUE
    /\ profileProgress' = OverallProgressEffect(profileProgress)
    /\ sectionsChanged' = FALSE
    /\ messages' = <<Greeting(now)>>
    /\ origin' = <<[disp |-> 0, kind |-> "greeting"]>>
    /\ UNCHANGED <<inputText, serverError, now, requests, lastCall, respSlots, slots>>

\* Date.now() when the next handler or continuation runs, dt ms from now
Elapsed == 0..(StartTime + MaxTicks - now)

\* what the user types: nothing, white space, a name
InputTexts == { <<>>, <<" ">>, <<"Juan", " ", "Dela", " ", "Cruz">> }

\* onChange of the text field: setInputText(e.target.value)
SetInputText(text) ==
    /\ mounted
    /\ text # inputText
    /\ inputText' = text
    /\ UNCHANGED <<messages, serverError, mounted, now, requests, history, progress>>

Request(handler, message) ==
    [handler |-> handler, body |-> [sender |-> "user", message |-> message],
     state |-> "pending", shape |-> "none", items |-> <<>>]

HandleSendPrepending(t) ==
    /\ mounted
    /\ IF Trim(inputText) = <<>>
       THEN /\ lastCall' = "ignored"
            /\ UNCHANGED <<messages, inputText, requests, origin, now>>
       ELSE /\ Len(requests) < MaxDispatch
            /\ lastCall' = "accepted"
            /\ now' = t
            /\ messages' = <<UserMessage(inputText, t)>> \o messages
            /\ origin' = <<[disp |-> Len(requests) + 1, kind |-> "user"]>> \o origin
            /\ inputText' = <<>>
            /\ requests' = Append(requests, Request("handleSend", inputText))
    /\ UNCHANGED <<serverError, mounted, respSlots, progress>>

HandleSendKeepingInput(t) ==
    /\ mounted
    /\ IF Trim(inputText) = <<>>
       THEN /\ lastCall' = "ignored"
            /\ UNCHANGED <<messages, inputText, requests, origin, now>>
       ELSE /\ Len(requests) < MaxDispatch
            /\ lastCall' = "accepted"
            /\ now' = t
            /\ messages' = Append(messages, UserMessage(inputText, t))
            /\ origin' = Append(origin, [disp |-> Len(requests) + 1, kind |-> "user"])
            /\ inputText' = inputText
            /\ requests' = Append(requests, Request("handleSend", inputText))
    /\ UNCHANGED <<serverError, mounted, respSlots, progress>>

\* handleSend up to the await (the send button and the Enter key)
HandleSend(t) ==
    /\ mounted
    /\ IF Trim(inputText) = <<>>
       THEN /\ lastCall' = "ignored"
            /\ UNCHANGED <<messages, inputText, requests, origin, now>>
       ELSE /\ Len(requests) < MaxDispatch
            /\ lastCall' = "accepted"
            /\ now' = t
            /\ messages' = Append(messages, UserMessage(inputText, t))
            /\ origin' = Append(origin, [disp |-> Len(requests) + 1, kind |-> "user"])
            /\ inputText' = <<>>
            /\ requests' = Append(requests, Request("handleSend", inputText))
    /\ UNCHANGED <<serverError, mounted, respSlots, progress>>

HandleButtonClickReplacing(payload, t) ==
    /\ mounted
    /\ payload \in ClickablePayloads(messages)
    /\ Len(requests) < MaxDispatch
    /\ lastCall' = "accepted"
    /\ now' = t
    /\ messages' = <<UserMessage(payload, t)>>
    /\ origin' = <<[disp |-> Len(requests) + 1, kind |-> "user"]>>
    /\ requests' = Append(requests, Request("handleButtonClick", payload))
    /\ UNCHANGED <<inputText, serverError, mounted, respSlots, progress>>

\* handleButtonClick up to the await, for a button the render shows
HandleButtonClick(payload, t) ==
    /\ mounted
    /\ payload \in ClickablePayloads(messages)
    /\ Len(requests) < MaxDispatch
    /\ lastCall' = "accepted"
    /\ now' = t
    /\ messages' = Append(messages, UserMessage(payload, t))
    /\ origin' = Append(origin, [disp |-> Len(requests) + 1, kind |-> "user"])
    /\ requests' = Append(requests, Request("handleButtonClick", payload))
    /\ UNCHANGED <<inputText, serverError, mounted, respSlots, progress>>

Pending(handler) ==
    { i \in DOMAIN requests : requests[i].handler = handler /\ requests[i].state = "pending" }

\* history: whether a response body is an array, and the items of the array
Shape(data) == IF data.t = "array" THEN "items" ELSE "other"
Items(data) == IF data.t = "array" THEN data.items ELSE <<>>

Tag(i, kind, msgs) == [j \in DOMAIN msgs |-> [disp |-> i, kind |-> kind]]

SendResolvedDegrading(i, resp, t, legacy) ==
    /\ now' = t
    /\ i \in Pending("handleSend")
    /\ requests' = [requests EXCEPT ![i].state = "fulfilled", ![i].shape = Shape(resp.data),
                                    ![i].items = Items(resp.data)]
    /\ respSlots' = IF MapThrows(resp.data) THEN respSlots ELSE resp.slots
    /\ IF MapThrows(resp.data)
       THEN /\ messages' = messages \o SendCatch(legacy, t, serverError).append
            /\ origin' = origin \o Tag(i, "error", SendCatch(legacy, t, serverError).append)
            /\ serverError' = SendCatch(legacy, t, serverError).serverError
       ELSE /\ messages' = messages \o BotResponses(resp.data, messages, t)
            /\ origin' = origin \o Tag(i, "bot", resp.data.items)
            /\ serverError' = TRUE
    /\ UNCHANGED <<inputText, mounted, lastCall, progress>>

SendResolvedResetting(i, resp, t, legacy) ==
    /\ now' = t
    /\ i \in Pending("handleSend")
    /\ requests' = [requests EXCEPT ![i].state = "fulfilled", ![i].shape = Shape(resp.data),
                                    ![i].items = Items(resp.data)]
    /\ respSlots' = IF MapThrows(resp.data) THEN respSlots ELSE resp.slots
    /\ IF MapThrows(resp.data)
       THEN /\ messages' = messages \o SendCatch(legacy, t, serverError).append
            /\ origin' = origin \o Tag(i, "error", SendCatch(legacy, t, serverError).append)
            /\ serverError' = SendCatch(legacy, t, serverError).serverError
       ELSE /\ messages' = messages \o BotResponses(resp.data, messages, t)
            /\ origin' = origin \o Tag(i, "bot", resp.data.items)
            /\ serverError' = FALSE
    /\ UNCHANGED <<inputText, mounted, lastCall, progress>>

\* the rest of handleSend once the request resolves with resp
SendResolved(i, resp, t, legacy) ==
    /\ now' = t
    /\ i \in Pending("handleSend")
    /\ requests' = [requests EXCEPT ![i].state = "fulfilled", ![i].shape = Shape(resp.data),
                                    ![i].items = Items(resp.data)]
    /\ respSlots' = IF MapThrows(resp.data) THEN respSlots ELSE resp.slots
    /\ IF MapThrows(resp.data)
       THEN /\ messages' = messages \o SendCatch(legacy, t, serverError).append
            /\ origin' = origin \o Tag(i, "error", SendCatch(legacy, t, serverError).append)
            /\ serverError' = SendCatch(legacy, t, serverError).serverError
       ELSE /\ messages' = messages \o BotResponses(resp.data, messages, t)
            /\ origin' = origin \o Tag(i, "bot", resp.data.items)
            /\ UNCHANGED serverError
    /\ UNCHANGED <<inputText, mounted, lastCall, progress>>

SendRejectedWhilePending(i, t, legacy) ==
    /\ now' = t
    /\ i \in Pending("handleSend")
    /\ Len(messages) < 2 * MaxDispatch + 1
    /\ requests' = requests
    /\ messages' = messages \o SendCatch(legacy, t, serverError).append
    /\ origin' = origin \o Tag(i, "error", SendCatch(legacy, t, serverError).append)
    /\ serverError' = SendCatch(legacy, t, serverError).serverError
    /\ UNCHANGED <<inputText, mounted, lastCall, respSlots, progress>>

SendRejectedRetrying(i, t, legacy) ==
    /\ now' = t
    /\ i \in Pending("handleSend")
    /\ requests' = Append([requests EXCEPT ![i].state = "rejected"],
                          Request("handleSend", requests[i].body.message))
    /\ messages' = messages \o SendCatch(legacy, t, serverError).append
    /\ origin' = origin \o Tag(i, "error", SendCatch(legacy, t, serverError).append)
    /\ serverError' = SendCatch(legacy, t, serverError).serverError
    /\ UNCHANGED <<inputText, mounted, lastCall, respSlots, progress>>

\* the rest of handleSend once the request rejects
SendRejected(i, t, legacy) ==
    /\ now' = t
    /\ i \in Pending("handleSend")
    /\ requests' = [requests EXCEPT ![i].state = "rejected"]
    /\ messages' = messages \o SendCatch(legacy, t, serverError).append
    /\ origin' = origin \o Tag(i, "error", SendCatch(legacy, t, serverError).append)
    /\ serverError' = SendCatch(legacy, t, serverError).serverError
    /\ UNCHANGED <<inputText, mounted, lastCall, respSlots, progress>>

\* the rest of handleButtonClick once the request resolves with resp
ButtonResolved(i, resp, t, legacy) ==
    /\ now' = t
    /\ i \in Pending("handleButtonClick")
    /\ requests' = [requests EXCEPT ![i].state = "fulfilled", ![i].shape = Shape(resp.data),
                                    ![i].items = Items(resp.data)]
    /\ respSlots' = IF FirstThrows(resp.data) THEN respSlots ELSE resp.slots
    /\ IF FirstThrows(resp.data)
       THEN /\ messages' = messages \o ButtonCatch(legacy, t, serverError).append
            /\ origin' = origin \o Tag(i, "error", ButtonCatch(legacy, t, serverError).append)
            /\ serverError' = ButtonCatch(legacy, t, serverError).serverError
       ELSE /\ messages' = IF HasFirst(resp.data)
                           THEN Append(messages, BotMessage(resp.data, t))
                           ELSE messages
            /\ origin' = IF HasFirst(resp.data)
                         THEN Append(origin, [disp |-> i, kind |-> "bot"])
                         ELSE origin
            /\ UNCHANGED serverError
    /\ UNCHANGED <<inputText, mounted, lastCall, progress>>

\* the rest of handleButtonClick once the request rejects
ButtonRejected(i, t, legacy) ==
    /\ now' = t
    /\ i \in Pending("handleButtonClick")
    /\ requests' = [requests EXCEPT ![i].state = "rejected"]
    /\ messages' = messages \o ButtonCatch(legacy, t, serverError).append
    /\ origin' = origin \o Tag(i, "error", ButtonCatch(legacy, t, serverError).append)
    /\ serverError' = ButtonCatch(legacy, t, serverError).serverError
    /\ UNCHANGED <<inputText, mounted, lastCall, respSlots, progress>>

ResolveSend(i, resp, t) == SendResolved(i, resp, t, FALSE)
RejectSend(i, t) == SendRejected(i, t, FALSE)
ResolveButton(i, resp, t) == ButtonResolved(i, resp, t, FALSE)
RejectButton(i, t) == ButtonRejected(i, t, FALSE)

LegacyResolveSend(i, resp, t) == SendResolved(i, resp, t, TRUE)
LegacyRejectSend(i, t) == SendRejected(i, t, TRUE)
LegacyResolveButton(i, resp, t) == ButtonResolved(i, resp, t, TRUE)
LegacyRejectButton(i, t) == ButtonRejected(i, t, TRUE)

\* the buttons the user clicks, when shown: the first button of the welcome
\* message and the button of ItemMenu
Payloads == { GreetingButtons[1].payload, ItemMenu.buttons.v[1].payload }

Next ==
    \/ Mount
    \/ \E text \in InputTexts : SetInputText(text)
    \/ \E dt \in Elapsed : HandleSend(now + dt)
    \/ \E payload \in Payloads, dt \in Elapsed : HandleButtonClick(payload, now + dt)
    \/ \E i \in 1..MaxDispatch, resp \in Responses, dt \in Elapsed :
          ResolveSend(i, resp, now + dt)
    \/ \E i \in 1..MaxDispatch, dt \in Elapsed : RejectSend(i, now + dt)
    \/ \E i \in 1..MaxDispatch, resp \in Responses, dt \in Elapsed :
          ResolveButton(i, resp, now + dt)
    \/ \E i \in 1..MaxDispatch, dt \in Elapsed : RejectButton(i, now + dt)

Spec == Init /\ [][Next]_vars

NextLegacy ==
    \/ Mount
    \/ \E text \in InputTexts : SetInputText(text)
    \/ \E dt \in Elapsed : HandleSend(now + dt)
    \/ \E payload \in Payloads, dt \in Elapsed : HandleButtonClick(payload, now + dt)
    \/ \E i \in 1..MaxDispatch, resp \in Responses, dt \in Elapsed :
          LegacyResolveSend(i, resp, now + dt)
    \/ \E i \in 1..MaxDispatch, dt \in Elapsed : LegacyRejectSend(i, now + dt)
    \/ \E i \in 1..MaxDispatch, resp \in Responses, dt \in Elapsed :
          LegacyResolveButton(i, resp, now + dt)
    \/ \E i \in 1..MaxDispatch, dt \in Elapsed : LegacyRejectButton(i, now + dt)

SpecLegacy == Init /\ [][NextLegacy]_vars

-----------------------------------------------------------------------------
(* The progress model on its own: updateProgressFromSlots applied to the    *)
(* slot maps of successive bot turns                                       *)

\* the slots the backend reports: three Personal Information fields and the
\* Work Experience fields; years_experience may also be the number 0
SlotKeys ==
    {"first_name", "last_name", "email",
     "current_job", "past_jobs", "skills", "years_experience"}
SlotValues(key) ==
    {Null, Str(<<>>), Str(<<"Juan">>)}
    \cup (IF key = "years_experience" THEN {Num(<<"0">>)} ELSE {})

SetSlot(m, key, value) ==
    [k \in DOMAIN m \cup {key} |-> IF k = key THEN value ELSE m[k]]
RemoveSlot(m, key) == [k \in DOMAIN m \ {key} |-> m[k]]

\* the slot map of the next turn: the same again, one slot set or removed,
\* or the tracker restarted
NextSlotMaps(m) ==
    {m, EmptySlotMap}
    \cup UNION { { SetSlot(m, key, value) : value \in SlotValues(key) } : key \in SlotKeys }
    \cup { RemoveSlot(m, key) : key \in DOMAIN m }

\* updateProgressFromSlots(slotMap): setProfileProgress(prev => ...)
CallUpdateProgressFromSlots(slotMap) ==
    /\ mounted
    /\ profileProgress' = UpdateProgressFromSlots(profileProgress, slotMap)
    /\ slots' = SomeSlots(slotMap)
    /\ sectionsChanged' = TRUE
    /\ UNCHANGED <<messages, inputText, serverError, mounted, now, requests, history>>

\* the [profileProgress.sections] effect, after a render with new sections
RunOverallProgressEffect ==
    /\ mounted
    /\ sectionsChanged
    /\ profileProgress' = OverallProgressEffect(profileProgress)
    /\ sectionsChanged' = FALSE
    /\ UNCHANGED <<messages, inputText, serverError, mounted, now, requests, history, slots>>

NextProgress ==
    \/ Mount
    \/ \E slotMap \in NextSlotMaps(slots.map) : CallUpdateProgressFromSlots(slotMap)
    \/ RunOverallProgressEffect

SpecProgress == Init /\ [][NextProgress]_vars

-----------------------------------------------------------------------------
(* The progress model over the section configuration: the sections literal  *)
(* of the useState call as shipped, shortened, or left without fields       *)

Section(name, fields) ==
    [name |-> name, completed |-> FALSE, fields |-> fields, completedFields |-> <<>>]

\* the sections a build configures: the shipped four, one short section, one
\* section with fields and one without, and configurations without any field
SectionConfigs ==
    { InitialSections,
      <<Section("Personal Information", <<"first_name", "last_name">>)>>,
      <<Section("Personal Information", <<"first_name">>), Section("Education", <<>>)>>,
      <<Section("Personal Information", <<>>), Section("Education", <<>>)>>,
      <<Section("Personal Information", <<>>)>>,
      <<>> }

\* the slot maps of this specification: any of first_name and last_name,
\* each null, '' or a name
ConfigSlotMaps ==
    UNION { [keys -> {Null, Str(<<>>), Str(<<"Juan">>)}] :
            keys \in SUBSET {"first_name", "last_name"} }

InitConfig ==
    /\ messages = <<>>
    /\ inputText = <<>>
    /\ serverError = FALSE
    /\ profileProgress \in { [sections |-> c, overallProgress |-> Zero] : c \in SectionConfigs }
    /\ mounted = FALSE
    /\ now = StartTime
    /\ requests = <<>>
    /\ origin = <<>>
    /\ lastCall = "none"
    /\ respSlots = NoSlots
    /\ slots = NoSlots
    /\ sectionsChanged = TRUE

NextConfig ==
    \/ Mount
    \/ \E slotMap \in ConfigSlotMaps : CallUpdateProgressFromSlots(slotMap)
    \/ RunOverallProgressEffect

SpecConfig == InitConfig /\ [][NextConfig]_vars

-----------------------------------------------------------------------------
(* Properties *)

\* a text that is empty or white space only
IsBlank(s) == \A k \in DOMAIN s : s[k] \in WhiteSpace

\* the messages dispatch i appended after its user message
Replies(i) == { j \in DOMAIN messages : origin[j].disp = i /\ origin[j].kind # "user" }

\* dispatch i appended one error message, a bot message without buttons, and
\* nothing else, and the session is degraded
FailureSurfaced(i) ==
    /\ serverError
    /\ Cardinality(Replies(i)) = 1
    /\ \A j \in Replies(i) :
          /\ origin[j].kind = "error"
          /\ messages[j].sender = "bot"
          /\ messages[j].buttons = NoButtons

\* C1: a dispatch whose backend call rejected has appended exactly one bot
\* error message without buttons and nothing else, and serverError is true.
C1_RejectSurfaced ==
    \A i \in DOMAIN requests : requests[i].state = "rejected" => FailureSurfaced(i)

\* C2: a dispatch whose response body is not an array of items ends as a
\* rejected one does: exactly one error message, serverError true, and no bot
\* message built from the body.
C2_MalformedSurfaced ==
    \A i \in DOMAIN requests :
        requests[i].state = "fulfilled" /\ requests[i].shape = "other" => FailureSurfaced(i)

\* C3: the messages of the history have pairwise distinct ids.
C3_IdsDistinct ==
    \A j, k \in DOMAIN messages : j # k => messages[j].id # messages[k].id

\* a slot is filled: present, and not null, undefined or the empty string
Filled(m, field) ==
    /\ field \in DOMAIN m
    /\ m[field] \notin {Null, Undefined, Str(<<>>)}

\* the fields of a section that are filled in m, in the section's order
FilledFields(section, m) ==
    LET IsFilled(field) == Filled(m, field) IN SelectSeq(section.fields, IsFilled)

\* the sections and the overall progress reflect the slot map m
Reflects(p, m) ==
    /\ \A s \in DOMAIN p.sections :
          p.sections[s].completedFields = FilledFields(p.sections[s], m)
    /\ ~p.overallProgress.nan
    /\ p.overallProgress.num * SumFields(p.sections)
         = 100 * SumCompleted(p.sections) * p.overallProgress.den

\* C4: once a successful response that carries a slot map has been folded in,
\* the sections' completedFields and overallProgress reflect that slot map.
C4_SlotsIngested == respSlots.present => Reflects(profileProgress, respSlots.map)

\* C5: bot and error messages appear in the order their dispatches were
\* issued, however the backend orders its answers.
C5_RepliesInIssuanceOrder ==
    \A j, k \in DOMAIN messages :
        (j < k /\ origin[j].kind \in {"bot", "error"} /\ origin[k].kind \in {"bot", "error"})
            => origin[j].disp <= origin[k].disp

\* C6: handleSend on an input that is empty or trims to empty issues no
\* request and leaves messages, inputText, serverError, profileProgress and
\* the requests as they were.
C6_BlankSendIgnored ==
    [][IsBlank(inputText) =>
         /\ (Len(requests') > Len(requests)
               => requests'[Len(requests')].handler # "handleSend")
         /\ (lastCall # "ignored" /\ lastCall' = "ignored"
               => UNCHANGED <<messages, inputText, serverError, profileProgress, requests>>)]_vars

C6_Witness == lastCall = "ignored" /\ inputText = <<" ">> /\ Len(messages) = 1

\* C7: handleButtonClick accepts no payload that is empty or trims to empty:
\* no request and no user message of a quick reply has a blank text.
C7_BlankPayloadIgnored ==
    \A i \in DOMAIN requests :
        requests[i].handler = "handleButtonClick" => ~IsBlank(requests[i].body.message)

\* C8: overallProgress is the number 100 * (completed fields) / (fields),
\* over all sections, and lies in [0, 100].
C8_OverallIsRatio ==
    /\ ~profileProgress.overallProgress.nan
    /\ profileProgress.overallProgress.den > 0
    /\ profileProgress.overallProgress.num * SumFields(profileProgress.sections)
         = 100 * SumCompleted(profileProgress.sections) * profileProgress.overallProgress.den
    /\ 0 <= profileProgress.overallProgress.num
    /\ profileProgress.overallProgress.num <= 100 * profileProgress.overallProgress.den

C8_Witness ==
    /\ slots.present
    /\ sectionsChanged
    /\ SumCompleted(profileProgress.sections) = 3
    /\ profileProgress.overallProgress = [nan |-> FALSE, num |-> 50, den |-> 3]

ExampleSlots ==
    [k \in {"first_name", "last_name", "email"} |->
        IF k = "first_name" THEN Str(<<"Juan">>)
        ELSE IF k = "last_name" THEN Str(<<>>) ELSE Null]

\* C9: after updateProgressFromSlots(m), each section's completedFields are
\* exactly its fields that are filled in m, in the section's field order; for
\* {first_name: "Juan", last_name: "", email: null} Personal Information has
\* completedFields ["first_name"] and is not completed.
C9_CompletedFieldsAreFilled ==
    slots.present =>
        /\ \A s \in DOMAIN profileProgress.sections :
              profileProgress.sections[s].completedFields
                = FilledFields(InitialSections[s], slots.map)
        /\ slots.map = ExampleSlots =>
              /\ profileProgress.sections[1].completedFields = <<"first_name">>
              /\ ~profileProgress.sections[1].completed

C9_Witness ==
    /\ slots.present
    /\ slots.map = ExampleSlots
    /\ profileProgress.sections[1].name = "Personal Information"
    /\ profileProgress.sections[1].completedFields = <<"first_name">>

\* C10: every section has at most as many completedFields as fields, all of
\* them fields of the section, completed is true exactly when the two
\* lengths are equal, and the names and field lists are those of the start.
C10_SectionsConsistent ==
    /\ Len(profileProgress.sections) = Len(InitialSections)
    /\ \A s \in DOMAIN profileProgress.sections :
          LET section == profileProgress.sections[s]
          IN  /\ Len(section.completedFields) <= Len(section.fields)
              /\ \A c \in DOMAIN section.completedFields :
                    \E f \in DOMAIN section.fields :
                        section.fields[f] = section.completedFields[c]
              /\ section.completed
                   <=> (Len(section.completedFields) = Len(section.fields))
              /\ section.name = InitialSections[s].name
              /\ section.fields = InitialSections[s].fields

C10_Witness ==
    /\ profileProgress.sections[2].completed
    /\ ~profileProgress.sections[1].completed
    /\ Len(profileProgress.sections[1].completedFields) > 0

Cleared(p) ==
    [sections |-> [s \in DOMAIN p.sections |->
                      [p.sections[s] EXCEPT !.completedFields = <<>>, !.completed = FALSE]],
     overallProgress |-> Zero]

\* a progress state with the same sections and every field marked
AllMarked(p) ==
    [sections |-> [s \in DOMAIN p.sections |->
                      [p.sections[s] EXCEPT !.completedFields = p.sections[s].fields,
                                            !.completed = TRUE]],
     overallProgress |-> [nan |-> FALSE, num |-> 100, den |-> 1]]

\* C12: updateProgressFromSlots is idempotent and forgets the prior
\* completedFields: the progress that a call with slot map S left is what a
\* second call with S returns, and what a call with S returns from a prior
\* state with no field marked or with every field marked.
C12_RecomputeIdempotent ==
    slots.present =>
        /\ UpdateProgressFromSlots(profileProgress, slots.map) = profileProgress
        /\ UpdateProgressFromSlots(Cleared(profileProgress), slots.map) = profileProgress
        /\ UpdateProgressFromSlots(AllMarked(profileProgress), slots.map) = profileProgress

C12_Witness ==
    /\ slots.present
    /\ sectionsChanged
    /\ DOMAIN slots.map = {"first_name", "skills"}
    /\ profileProgress.sections[1].completedFields = <<"first_name">>
    /\ profileProgress.sections[2].completedFields = <<>>
    /\ profileProgress.overallProgress = [nan |-> FALSE, num |-> 50, den |-> 9]

\* the request of dispatch i resolved with an array whose first item, or
\* whose every item, is an object
FirstIsObject(i) ==
    /\ requests[i].state = "fulfilled"
    /\ requests[i].shape = "items"
    /\ Len(requests[i].items) >= 1
    /\ requests[i].items[1].t = "object"
AllObjects(i) ==
    /\ requests[i].state = "fulfilled"
    /\ requests[i].shape = "items"
    /\ \A k \in DOMAIN requests[i].items : requests[i].items[k].t = "object"

\* the positions in the history of the user message of dispatch i and of the
\* messages the dispatch appended after it, in history order
UserIndex(i) == CHOOSE j \in DOMAIN messages : origin[j].disp = i /\ origin[j].kind = "user"
ReplyIndexes(i) ==
    SelectSeq([j \in DOMAIN messages |-> j],
              LAMBDA j : origin[j].disp = i /\ origin[j].kind # "user")

\* the text of an item, '' when the item has none or an empty one
TextOf(item) == IF item.text \in {Undefined, Str(<<>>)} THEN Str(<<>>) ELSE item.text

JuanDelaCruz == <<"Juan", " ", "Dela", " ", "Cruz">>

\* C13: a handleSend whose request resolved with an array of items has
\* appended, after its user message, one bot message per item in the order of
\* the items, each with the item's text or '' when the text is missing or
\* empty, and no error message; while every request is pending or ended so,
\* serverError is false.  A fresh session in which "Juan Dela Cruz" was sent
\* and answered by [{text: "Hi Juan!"}] holds exactly the greeting, the user
\* message "Juan Dela Cruz" and the bot message "Hi Juan!".
C13_SendMapsEveryItem ==
    /\ \A i \in DOMAIN requests :
          requests[i].handler = "handleSend" /\ AllObjects(i) =>
              /\ Len(ReplyIndexes(i)) = Len(requests[i].items)
              /\ \A k \in DOMAIN ReplyIndexes(i) :
                    /\ ReplyIndexes(i)[k] > UserIndex(i)
                    /\ origin[ReplyIndexes(i)[k]].kind = "bot"
                    /\ messages[ReplyIndexes(i)[k]].sender = "bot"
                    /\ messages[ReplyIndexes(i)[k]].text = TextOf(requests[i].items[k])
    /\ (\A i \in DOMAIN requests :
           \/ requests[i].state = "pending"
           \/ requests[i].handler = "handleSend" /\ AllObjects(i))
          => ~serverError
    /\ ( /\ Len(requests) = 1
         /\ requests[1].handler = "handleSend"
         /\ requests[1].body.message = JuanDelaCruz
         /\ requests[1].state = "fulfilled"
         /\ requests[1].shape = "items"
         /\ requests[1].items = <<ItemHi>> )
          => /\ Len(messages) = 3
             /\ messages[1].id = IntId(1) /\ messages[1].sender = "bot"
             /\ messages[2].sender = "user" /\ messages[2].text = Str(JuanDelaCruz)
             /\ messages[3].sender = "bot" /\ messages[3].text = Str(<<"Hi Juan!">>)
             /\ ~serverError

C13_Witness ==
    /\ Len(requests) = 1
    /\ requests[1].handler = "handleSend"
    /\ requests[1].state = "fulfilled"
    /\ requests[1].items = <<ItemHi>>
    /\ Len(messages) = 3
    /\ messages[2].text = Str(JuanDelaCruz)
    /\ messages[3].text = Str(<<"Hi Juan!">>)
    /\ ~serverError

\* C14: a handleButtonClick whose request resolved with an array of one or
\* more items has appended, after its user message, exactly one bot message:
\* it has the text and the buttons of the first item, and no message comes
\* from the later items.
C14_ButtonClickFirstItemOnly ==
    \A i \in DOMAIN requests :
        requests[i].handler = "handleButtonClick" /\ FirstIsObject(i) =>
            /\ Len(ReplyIndexes(i)) = 1
            /\ ReplyIndexes(i)[1] > UserIndex(i)
            /\ origin[ReplyIndexes(i)[1]].kind = "bot"
            /\ messages[ReplyIndexes(i)[1]].sender = "bot"
            /\ messages[ReplyIndexes(i)[1]].text = requests[i].items[1].text
            /\ messages[ReplyIndexes(i)[1]].buttons = requests[i].items[1].buttons

C14_Witness ==
    \E i \in DOMAIN requests :
        /\ requests[i].handler = "handleButtonClick"
        /\ requests[i].state = "fulfilled"
        /\ requests[i].items = <<ItemMenu, ItemHi>>
        /\ messages[Len(messages)].buttons = ItemMenu.buttons
        /\ origin[Len(messages)].disp = i

\* C15: every bot message made from an item of a response carries the
\* buttons of that item, whichever handler appended it, and no user message
\* carries buttons.
C15_ButtonsCarryThrough ==
    /\ \A i \in DOMAIN requests :
          AllObjects(i) =>
              \A k \in DOMAIN ReplyIndexes(i) :
                  messages[ReplyIndexes(i)[k]].buttons = requests[i].items[k].buttons
    /\ \A j \in DOMAIN messages :
          messages[j].sender = "user" => messages[j].buttons = NoButtons

\* C16: once the component has mounted and until a request is issued, the
\* history is exactly the welcome message (sender bot, id '1', four buttons),
\* overallProgress is 0, no section has a completed field and serverError is
\* false.
C16_FreshSession ==
    mounted /\ requests = <<>> =>
        /\ Len(messages) = 1
        /\ messages[1].sender = "bot"
        /\ messages[1].id = IntId(1)
        /\ messages[1].text = Str(GreetingText)
        /\ messages[1].buttons.t = "array"
        /\ Len(messages[1].buttons.v) = 4
        /\ profileProgress.overallProgress = Zero
        /\ \A s \in DOMAIN profileProgress.sections :
              /\ profileProgress.sections[s].completedFields = <<>>
              /\ ~profileProgress.sections[s].completed
        /\ ~serverError

C16_Witness ==
    /\ mounted
    /\ requests = <<>>
    /\ lastCall = "none"
    /\ inputText = <<>>
    /\ Len(messages) = 1
    /\ Len(profileProgress.sections) = 4

\* C17: in every step the history before the step is a prefix of the history
\* after it: messages are appended, never removed, reordered or changed.
C17_AppendOnly ==
    [][/\ Len(messages) <= Len(messages')
       /\ SubSeq(messages', 1, Len(messages)) = messages]_vars

C17_Witness ==
    /\ Len(messages) >= 5
    /\ \E j, k \in DOMAIN messages : origin[j].kind = "error" /\ origin[k].kind = "bot"
    /\ \E i, h \in DOMAIN requests :
          requests[i].handler = "handleSend" /\ requests[h].handler = "handleButtonClick"

\* C18: once serverError is true it stays true in every later state.
C18_ServerErrorSticky == [][serverError => serverError']_vars

C18_Witness ==
    /\ serverError
    /\ \E j, k \in DOMAIN messages :
          j < k /\ origin[j].kind = "error" /\ origin[k].kind = "bot"
    /\ \A i \in DOMAIN requests : requests[i].state # "pending"

\* C19: a request that resolved with the empty array has appended nothing
\* after its user message, neither a bot message nor an error message, for
\* both handlers; while every request is pending or ended so, serverError is
\* false.
C19_EmptyArrayIsNoFailure ==
    /\ \A i \in DOMAIN requests :
          ( /\ requests[i].state = "fulfilled"
            /\ requests[i].shape = "items"
            /\ requests[i].items = <<>> ) => ReplyIndexes(i) = <<>>
    /\ (\A i \in DOMAIN requests :
           \/ requests[i].state = "pending"
           \/ /\ requests[i].state = "fulfilled"
              /\ requests[i].shape = "items"
              /\ requests[i].items = <<>>)
          => ~serverError

C19_Witness ==
    /\ Len(requests) = 2
    /\ requests[1].handler = "handleSend"
    /\ requests[2].handler = "handleButtonClick"
    /\ \A i \in DOMAIN requests :
          /\ requests[i].state = "fulfilled"
          /\ requests[i].shape = "items"
          /\ requests[i].items = <<>>
    /\ Len(messages) = 3
    /\ ~serverError

\* C20: every handleButtonClick(payload) has appended one user message whose
\* text is the payload, which is the payload of a button of an earlier bot
\* message and not that button's title, and the message field of its request
\* is the same payload.
C20_QuickReplyTextIsPayload ==
    \A i \in DOMAIN requests :
        requests[i].handler = "handleButtonClick" =>
            /\ Cardinality({ j \in DOMAIN messages :
                               origin[j].disp = i /\ origin[j].kind = "user" }) = 1
            /\ messages[UserIndex(i)].sender = "user"
            /\ messages[UserIndex(i)].text = Str(requests[i].body.message)
            /\ \E j \in 1..(UserIndex(i) - 1) :
                  /\ messages[j].sender = "bot"
                  /\ messages[j].buttons.t = "array"
                  /\ \E b \in DOMAIN messages[j].buttons.v :
                        /\ messages[j].buttons.v[b].payload = requests[i].body.message
                        /\ messages[UserIndex(i)].text # Str(messages[j].buttons.v[b].title)

C20_Witness ==
    \E i \in DOMAIN requests :
        /\ requests[i].handler = "handleButtonClick"
        /\ requests[i].body.message = <<"/profile_builder">>
        /\ messages[UserIndex(i)].text = Str(<<"/profile_builder">>)
        /\ requests[i].state = "fulfilled"

\* C21: the step that issues a request appends the user message of that
\* dispatch to the history, with the text that the request carries, and for
\* handleSend leaves inputText empty; and in every state every bot or error
\* message of a dispatch comes later in the history than the user message of
\* that dispatch.
C21_UserMessageFirst ==
    [][/\ Len(requests') > Len(requests) =>
            /\ Len(requests') = Len(requests) + 1
            /\ requests'[Len(requests')].state = "pending"
            /\ messages' = Append(messages, messages'[Len(messages')])
            /\ messages'[Len(messages')].sender = "user"
            /\ messages'[Len(messages')].text = Str(requests'[Len(requests')].body.message)
            /\ origin'[Len(messages')] = [disp |-> Len(requests'), kind |-> "user"]
            /\ (requests'[Len(requests')].handler = "handleSend" => inputText' = <<>>)
       /\ \A j \in DOMAIN messages' :
             origin'[j].kind \in {"bot", "error"} =>
                 \E u \in 1..(j - 1) :
                     origin'[u] = [disp |-> origin'[j].disp, kind |-> "user"]]_vars

C21_Witness ==
    /\ Len(requests) = 2
    /\ requests[1].handler = "handleSend"
    /\ requests[2].handler = "handleButtonClick"
    /\ requests[1].state = "rejected"
    /\ requests[2].state = "pending"
    /\ inputText = <<>>
    /\ lastCall = "accepted"
    /\ Len(messages) = 4
    /\ origin[4].kind = "error"

\* C22: the requests issued are as many as the user messages of the history,
\* one for each: request i belongs to the i-th accepted dispatch, whose one
\* user message carries the text the request sent, so no request is a retry
\* of an earlier one.
C22_OneRequestPerDispatch ==
    /\ Len(requests) = Cardinality({ j \in DOMAIN messages : messages[j].sender = "user" })
    /\ \A i \in DOMAIN requests :
          /\ Cardinality({ j \in DOMAIN messages :
                             origin[j].disp = i /\ origin[j].kind = "user" }) = 1
          /\ messages[UserIndex(i)].sender = "user"
          /\ messages[UserIndex(i)].text = Str(requests[i].body.message)
    /\ \A j \in DOMAIN messages :
          messages[j].sender = "user" => origin[j].kind = "user" /\ origin[j].disp \in DOMAIN requests

C22_Witness ==
    /\ Len(requests) = 2
    /\ requests[1].state = "rejected"
    /\ requests[2].state = "rejected"
    /\ requests[1].handler = "handleSend"
    /\ Len(messages) = 5

\* the backend call of dispatch i failed: the request rejected, or resolved
\* with a body that is not an array of objects
CallFailed(i) ==
    \/ requests[i].state = "rejected"
    \/ requests[i].state = "fulfilled" /\ ~AllObjects(i)

\* C23: serverError is true only if the backend call of some dispatch has
\* failed, and then that dispatch has appended an error message; a step in
\* which a request resolves with an array of objects leaves serverError as it
\* was.
C23_ServerErrorOnlyFromFailure ==
    [][/\ serverError' =>
             \E i \in DOMAIN requests' :
                 /\ CallFailed(i)'
                 /\ \E j \in DOMAIN messages' : origin'[j] = [disp |-> i, kind |-> "error"]
       /\ \A i \in DOMAIN requests :
             (requests[i].state = "pending" /\ AllObjects(i)') => serverError' = serverError]_vars

C23_Witness ==
    /\ serverError
    /\ Len(requests) = 2
    /\ requests[1].state = "fulfilled" /\ requests[1].shape = "other"
    /\ requests[1].handler = "handleSend"
    /\ requests[2].state = "fulfilled" /\ requests[2].items = <<ItemMenu, ItemHi>>
    /\ origin[Len(origin)] = [disp |-> 2, kind |-> "bot"]

\* C24: while the request of a dispatch is pending, however much time passes
\* and whatever else happens, that dispatch has appended no bot or error
\* message; serverError is false while no request has ended; and a reply of a
\* dispatch or a change of serverError comes only in a step in which a
\* pending request resolves or rejects.
C24_NoTimeout ==
    [][/\ \A i \in DOMAIN requests' :
             requests'[i].state = "pending" =>
                 \A j \in DOMAIN messages' :
                     origin'[j].disp = i => origin'[j].kind = "user"
       /\ (\A i \in DOMAIN requests' : requests'[i].state = "pending") => ~serverError'
       /\ ( \/ serverError' # serverError
            \/ \E j \in DOMAIN messages' \ DOMAIN messages :
                   origin'[j].kind \in {"bot", "error"} )
             => \E i \in DOMAIN requests :
                    /\ requests[i].state = "pending"
                    /\ requests'[i].state \in {"fulfilled", "rejected"}]_vars

C24_Witness ==
    /\ Len(requests) = 2
    /\ requests[1].state = "pending"
    /\ requests[2].state = "fulfilled"
    /\ now = StartTime + MaxTicks
    /\ messages[UserIndex(1)].timestamp = StartTime
    /\ \A j \in DOMAIN messages : origin[j].disp = 1 => origin[j].kind = "user"
    /\ \E j \in DOMAIN messages : origin[j] = [disp |-> 2, kind |-> "bot"]
    /\ ~serverError

\* the component with the one step its own scheduling guarantees: the mount
\* effects run; whether and when a request ends is up to the backend
SpecMounting == Spec /\ WF_vars(Mount)

\* every request ends: it resolves or rejects.  A timeout would ensure it;
\* SpecMounting does not satisfy it: a request may stay pending forever.
EveryRequestEnds ==
    \A i \in 1..MaxDispatch :
        (i \in DOMAIN requests /\ requests[i].state = "pending")
            ~> (i \in DOMAIN requests /\ requests[i].state \in {"fulfilled", "rejected"})

\* C25: the user messages stand in the history in the order in which their
\* dispatches were issued, whatever the order in which the requests end: of
\* two user messages the earlier one belongs to the earlier dispatch, and its
\* timestamp is not later.
C25_UserMessagesInIssuanceOrder ==
    \A j, k \in DOMAIN messages :
        (j < k /\ origin[j].kind = "user" /\ origin[k].kind = "user") =>
            /\ origin[j].disp < origin[k].disp
            /\ messages[j].sender = "user" /\ messages[k].sender = "user"
            /\ messages[j].timestamp <= messages[k].timestamp

C25_Witness ==
    /\ Len(requests) = 2
    /\ requests[1].state = "fulfilled"
    /\ requests[2].state = "rejected"
    /\ Len(messages) = 6
    /\ origin[2] = [disp |-> 1, kind |-> "user"]
    /\ origin[3] = [disp |-> 2, kind |-> "user"]
    /\ origin[4] = [disp |-> 2, kind |-> "error"]
    /\ origin[5] = [disp |-> 1, kind |-> "bot"]

=============================================================================
